---- MODULE Spec2Model ----
(***************************************************************************)
(* PFC-StereoMic: the streaming callback of audio_stream.AudioStreamer,    *)
(* the accumulation queue of recording_settings.RecordingSettings, the     *)
(* equalizer band table of audio_settings.AudioSettings and the            *)
(* equalizer sound_processing.apply_equalizer.                             *)
(*                                                                         *)
(* The specifications share the variables:                                 *)
(*   Spec          the controller's callback walking the source buffer     *)
(*   SpecQueue     the accumulation queue's operations                     *)
(*   SpecEq        the band table, the global gain and apply_equalizer     *)
(*   SpecSnapshot  a caller holding the mapping the eq_bands getter gave   *)
(*   SpecSettings  the calls on AudioSettings, one at a time               *)
(*   SpecRace      threads in add_eq_band and in the eq_bands getter       *)
(*   SpecSession   the setters of RecordingSettings                        *)
(*   SpecLife      start_stream, stop_stream and the audio backend         *)
(*   SpecMain      the control flow of main.py around streaming()          *)
(*   SpecEqRace    apply_equalizer's loop while the band table is written  *)
(*   SpecRate      the sampling_freq setter while a stream runs            *)
(*   SpecLocks     the threads and the locks they take                     *)
(*   SpecObjects   two AudioSettings objects and the dicts they hold       *)
(*   SpecBuild     AudioStreamer() built with its default arguments        *)
(***************************************************************************)
EXTENDS Integers, Sequences, FiniteSets, TLC

VARIABLES
    in_data,            \* rec_set._in_data_bytes read as int16 samples
    channels,           \* AudioStreamer.channels
    frame_start_index,  \* AudioStreamer.frame_start_index (the cursor)
    cb,                 \* the latest callback invocation: arguments, locals, outcome
    audio_queue,        \* rec_set._audio_queue, oldest frame first
    enqueued,           \* number of samples ever put on the queue (they are tagged 1, 2, ...)
    dequeued,           \* number of samples removed by get_from_audio_queue
    q_ret,              \* the latest value a queue read returned
    eq_bands,           \* audio_set._eq_bands in dict insertion order
    global_gain,        \* audio_set._global_gain
    eq,                 \* the latest apply_equalizer call: arguments and outcome
    eq_current,         \* history: the settings are still those that call read
    got_bands,          \* a caller's mapping, as the eq_bands getter returned it
    last_call,          \* the latest call on audio_set: arguments, outcome, state before
    audio_lock,         \* shared_locks["audio"]: "free" or the thread holding it
    pc,                 \* per thread: where it is in its AudioSettings call, and the call's arguments
    observed,           \* the latest band value a reader thread read from the mapping it got
    rec,                \* the fields of rec_set that have a validating setter
    rec_call,           \* the latest setter call on rec_set: field, value, outcome, fields before
    stream,             \* AudioStreamer.stream: NoStream (None) or a backend stream handle
    pa_streams,         \* the backend's streams, by handle: the state of each
    life_call,          \* the latest start_stream call: outcome and state before
    audio,              \* AudioStreamer.audio, the PyAudio instance: "live" or "terminated"
    stop_call,          \* the latest stop_stream call: what it called, outcome, state before
    ctl,                \* the main thread of main.py: where it is and how streaming() ended
    streamer_rate,      \* AudioStreamer.rate
    cb_rate,            \* history: the rate the latest callback used and the rate rec_set held then
    rec_lock,           \* rec_set._lock: "free" or the thread holding it
    eq_iter,            \* an apply_equalizer call in progress on its own thread
    objects,            \* the dicts of band tables and the AudioSettings objects that hold them
    streamers           \* the AudioStreamer() constructions with the default arguments

vars == <<in_data, channels, frame_start_index, cb,
          audio_queue, enqueued, dequeued, q_ret,
          eq_bands, global_gain, eq, eq_current,
          got_bands, last_call, audio_lock, pc, observed,
          rec, rec_call, stream, pa_streams, life_call,
          audio, stop_call, ctl, streamer_rate, cb_rate, rec_lock, eq_iter,
          objects, streamers>>

streamVars == <<in_data, channels, frame_start_index, cb>>
queueVars == <<audio_queue, enqueued, dequeued, q_ret>>
eqVars == <<eq_bands, global_gain, eq, eq_current>>
callerVars == <<got_bands, last_call>>
raceVars == <<audio_lock, pc, observed>>
sessionVars == <<rec, rec_call>>
lifeVars == <<stream, pa_streams, life_call>>
lastVars == <<objects, streamers>>
lateVars == <<audio, stop_call, ctl, streamer_rate, cb_rate, rec_lock, eq_iter, lastVars>>
addedVars == <<callerVars, raceVars, sessionVars, lifeVars, lateVars>>

(***************************************************************************)
(* Bounds of the model and constants of the program.                       *)
(***************************************************************************)
MaxBufLen == 1000
MaxQueue == 3
MaxSamples == 6
MaxItemLen == 2
MaxEqLen == 28
MaxStreams == 3
MaxInstants == 3
MaxDicts == 3
MaxBuilds == 3
PadLen == 27
DEFAULT_GLOBAL_GAIN == 0
Int16Min == -32768
Int16Max == 32767

Min(a, b) == IF a < b THEN a ELSE b

(***************************************************************************)
(* The source buffer.  np.frombuffer(bytes, dtype=np.int16) reads the      *)
(* bytes as consecutive int16 samples; sample i (0-based) of the test      *)
(* buffers is a value of the int16 range that differs for every i.         *)
(***************************************************************************)
SampleAt(i) == ((i * 7919) % 65536) + Int16Min

Buffer(len) == [k \in 1..len |-> SampleAt(k - 1)]

BufLens == {0, 100, MaxBufLen}
ChannelCounts == {1, 2}
FrameCounts == {7, 30, 300}

\* Python a[start:end] on a sequence, 0-based, end exclusive, indices clamped.
PySlice(a, start, end) ==
    LET lo == Min(IF start < 0 THEN 0 ELSE start, Len(a))
        hi == Min(IF end < 0 THEN 0 ELSE end, Len(a))
    IN  IF hi <= lo THEN <<>> ELSE SubSeq(a, lo + 1, hi)

(***************************************************************************)
(* AudioStreamer.callback                                                  *)
(***************************************************************************)
NoCallback ==
    [status |-> "none", frame_count |-> 0, start |-> 0, end |-> 0,
     frame_np |-> <<>>, flag |-> "none"]

\* end = start + frame_count * channels, cut to the length of the data
FrameEndNoClamp(start, frame_count, nch, full_audio_length) ==
    start + (frame_count * nch)

FrameEndNoChannels(start, frame_count, nch, full_audio_length) ==
    IF start + frame_count > full_audio_length
    THEN full_audio_length
    ELSE start + frame_count

FrameEnd(start, frame_count, nch, full_audio_length) ==
    LET end == start + (frame_count * nch)
    IN  IF end > full_audio_length THEN full_audio_length ELSE end

\* The call apply_equalizer(frame_np, self.rate, self.bit_depth) passes three
\* positional arguments to a function of two parameters (data, samplerate):
\* Python raises TypeError before the function body runs, after the cursor was
\* advanced.  Nothing is enqueued and nothing is returned to the backend.
Callback(frame_count) ==
    LET full_audio == in_data
        full_audio_length == Len(full_audio)
        start == frame_start_index
        end == FrameEnd(start, frame_count, channels, full_audio_length)
        frame_np == PySlice(full_audio, start, end)
    IN  /\ frame_start_index' = end
        /\ cb' = [status |-> "TypeError", frame_count |-> frame_count,
                  start |-> start, end |-> end, frame_np |-> frame_np,
                  flag |-> "none"]
        /\ UNCHANGED <<in_data, channels>>
        /\ UNCHANGED queueVars
        /\ UNCHANGED eqVars

(***************************************************************************)
(* RecordingSettings: the accumulation queue (queue.Queue, FIFO, no size   *)
(* limit), every operation under the object's lock.  The frames put on the *)
(* queue carry the tags enqueued+1, enqueued+2, ... as their samples, so a *)
(* sample's value tells when it was enqueued.                              *)
(***************************************************************************)
NoRead == [op |-> "none", value |-> <<>>, enq |-> 0, deq |-> 0]

\* What get_from_audio_queue returns for an empty queue.
None == <<"None">>

TaggedFrame(first, n) == [k \in 1..n |-> first + k]

\* queue.Queue.put: the item becomes the newest element.
QueuePutFront(q, item) == <<item>> \o q

QueuePut(q, item) == Append(q, item)

\* np.concatenate(list(q)): the frames' samples, first frame first.
RECURSIVE Concatenate(_)
Concatenate(frames) ==
    IF frames = <<>> THEN <<>> ELSE Head(frames) \o Concatenate(Tail(frames))

add_to_audio_queue(item) ==
    /\ audio_queue' = QueuePut(audio_queue, item)
    /\ enqueued' = enqueued + Len(item)
    /\ UNCHANGED <<dequeued, q_ret>>
    /\ UNCHANGED streamVars
    /\ UNCHANGED eqVars

AddToAudioQueue ==
    \E n \in 0..MaxItemLen :
        /\ Len(audio_queue) < MaxQueue
        /\ enqueued + n <= MaxSamples
        /\ add_to_audio_queue(TaggedFrame(enqueued, n))

get_from_audio_queue ==
    /\ IF audio_queue = <<>>
       THEN /\ q_ret' = [op |-> "get", value |-> None,
                         enq |-> enqueued, deq |-> dequeued]
            /\ UNCHANGED <<audio_queue, dequeued>>
       ELSE /\ q_ret' = [op |-> "get", value |-> Head(audio_queue),
                         enq |-> enqueued, deq |-> dequeued]
            /\ audio_queue' = Tail(audio_queue)
            /\ dequeued' = dequeued + Len(Head(audio_queue))
    /\ UNCHANGED enqueued
    /\ UNCHANGED streamVars
    /\ UNCHANGED eqVars

\* A concatenation that takes the frames off the queue.
ConcatenateAndDrain ==
    /\ q_ret' = [op |-> "concat",
                 value |-> IF audio_queue = <<>> THEN <<>>
                           ELSE Concatenate(audio_queue),
                 enq |-> enqueued, deq |-> dequeued]
    /\ audio_queue' = <<>>
    /\ UNCHANGED <<enqueued, dequeued>>
    /\ UNCHANGED streamVars
    /\ UNCHANGED eqVars

get_concatenated_audio ==
    /\ q_ret' = [op |-> "concat",
                 value |-> IF audio_queue = <<>> THEN <<>>
                           ELSE Concatenate(audio_queue),
                 enq |-> enqueued, deq |-> dequeued]
    /\ UNCHANGED <<audio_queue, enqueued, dequeued>>
    /\ UNCHANGED streamVars
    /\ UNCHANGED eqVars

(***************************************************************************)
(* AudioSettings: the band table and the global gain.  The table is a      *)
(* Python dict band_id -> (freq, gain, q), held here in insertion order    *)
(* (the order in which a dict is iterated).  q is held in tenths (q10 = 10 *)
(* is q = 1.0), frequencies in Hz, gains in dB.                            *)
(***************************************************************************)
DEFAULT_EQ_BANDS == << [id |-> 1, freq |-> 4000, gain |-> -6, q10 |-> 10] >>

BandIds == {1, 2}

\* The (freq, gain, q10) values the settings are driven with: two bands valid
\* at 192 kHz, q = 0.1 and q = 0.5 around 4 kHz, a zero and a negative centre.
BandChoices ==
    { <<4000, -6, 10>>, <<8000, 20, 10>>, <<4000, 20, 1>>,
      <<4000, -6, 5>>, <<0, 0, 10>>, <<-4000, 0, 1>> }

GainChoices == {0, 20}
SampleRates == {8000, 12000, 192000}

HasBand(bands, band_id) == \E i \in 1..Len(bands) : bands[i].id = band_id

\* A store that writes the fields of a present entry one at a time and has
\* written only the first.
DictSetFreqOnly(bands, band_id, freq, gain, q10) ==
    IF HasBand(bands, band_id)
    THEN [i \in 1..Len(bands) |->
            IF bands[i].id = band_id THEN [bands[i] EXCEPT !.freq = freq] ELSE bands[i]]
    ELSE Append(bands, [id |-> band_id, freq |-> freq, gain |-> gain, q10 |-> q10])

\* d[band_id] = (freq, gain, q): a present key keeps its place, a new key is last.
DictSet(bands, band_id, freq, gain, q10) ==
    LET b == [id |-> band_id, freq |-> freq, gain |-> gain, q10 |-> q10]
    IN  IF HasBand(bands, band_id)
        THEN [i \in 1..Len(bands) |-> IF bands[i].id = band_id THEN b ELSE bands[i]]
        ELSE Append(bands, b)

\* A delete that empties the dict.
DictDelAll(bands, band_id) == <<>>

\* del d[band_id]
DictDel(bands, band_id) == SelectSeq(bands, LAMBDA b : b.id # band_id)

add_eq_band(band_id, freq, gain, q10) ==
    /\ eq_bands' = DictSet(eq_bands, band_id, freq, gain, q10)
    /\ eq_current' = FALSE
    /\ UNCHANGED <<global_gain, eq>>
    /\ UNCHANGED streamVars
    /\ UNCHANGED queueVars

remove_eq_band(band_id) ==
    /\ eq_bands' = IF HasBand(eq_bands, band_id)
                   THEN DictDel(eq_bands, band_id)
                   ELSE eq_bands
    /\ eq_current' = FALSE
    /\ UNCHANGED <<global_gain, eq>>
    /\ UNCHANGED streamVars
    /\ UNCHANGED queueVars

\* A clear that puts the default band back instead of emptying the table.
ClearToDefault ==
    /\ eq_bands' = DEFAULT_EQ_BANDS
    /\ eq_current' = FALSE
    /\ UNCHANGED <<global_gain, eq>>
    /\ UNCHANGED streamVars
    /\ UNCHANGED queueVars

clear_eq_bands ==
    /\ eq_bands' = <<>>
    /\ eq_current' = FALSE
    /\ UNCHANGED <<global_gain, eq>>
    /\ UNCHANGED streamVars
    /\ UNCHANGED queueVars

set_global_gain(value) ==
    /\ global_gain' = value
    /\ eq_current' = FALSE
    /\ UNCHANGED <<eq_bands, eq>>
    /\ UNCHANGED streamVars
    /\ UNCHANGED queueVars

(***************************************************************************)
(* sound_processing.apply_equalizer(data, samplerate).                     *)
(*                                                                         *)
(* A frame is [tone, samples]: int16 samples of a signal whose energy lies *)
(* at the frequency tone (Hz).  The zero-phase 4th-order Butterworth band  *)
(* pass (butter + filtfilt) is held as its ideal response: it returns the  *)
(* samples of a tone inside [low_freq, high_freq] and zeros for a tone     *)
(* outside.  Values of a float64 array are held in hundredths.             *)
(*                                                                         *)
(* Band edges are held multiplied by 2*q (in tenths: 2*q10), which is      *)
(* positive for every band used, so that they are integers:                *)
(*   bandwidth * 2*q10 = 20*freq,  nyquist * 2*q10 = samplerate * q10.     *)
(***************************************************************************)
Tones == {3000, 5000}
EqLens == {0, PadLen, MaxEqLen}

\* int16 test samples: both ends of the range, a mid value and silence.
TestSample(k) ==
    CASE k % 4 = 1 -> Int16Max
      [] k % 4 = 2 -> Int16Min
      [] k % 4 = 3 -> 1000
      [] OTHER -> 0

EqFrames ==
    { [tone |-> t, samples |-> [k \in 1..n |-> TestSample(k)]] :
        t \in Tones, n \in EqLens }

NoOutput == [dtype |-> "none", values |-> <<>>]

NoEqCall ==
    [status |-> "none", err |-> "none",
     data |-> [tone |-> 0, samples |-> <<>>], samplerate |-> 0,
     out |-> NoOutput]

BandwidthS(b) == 20 * b.freq

LowFreqSNoHalf(b) == (2 * b.q10 * b.freq) - BandwidthS(b)

LowFreqS(b) == (2 * b.q10 * b.freq) - (BandwidthS(b) \div 2)

HighFreqS(b) == (2 * b.q10 * b.freq) + (BandwidthS(b) \div 2)

NyquistS(b, samplerate) == samplerate * b.q10

\* if not (0 <= low < high <= 1), low and high being the edges over nyquist
LimitsOk(b, samplerate) ==
    /\ 0 <= LowFreqS(b)
    /\ LowFreqS(b) < HighFreqS(b)
    /\ HighFreqS(b) <= NyquistS(b, samplerate)

\* scipy.signal.butter(..., fs=samplerate) raises ValueError unless every
\* critical frequency lies strictly between 0 and fs/2.
ButterCriticalOk(b, samplerate) ==
    /\ 0 < LowFreqS(b)
    /\ LowFreqS(b) < NyquistS(b, samplerate)
    /\ 0 < HighFreqS(b)
    /\ HighFreqS(b) < NyquistS(b, samplerate)

\* scipy.signal.filtfilt(b, a, data): the default padding is 3 * max(len(a),
\* len(b)) = 3 * 9 samples; it raises ValueError unless the input is longer.
FiltFiltLenOk(data) == Len(data.samples) > PadLen

\* The band's filtered signal (in units).
FiltFilt(b, data) ==
    LET inside == /\ LowFreqS(b) <= 2 * b.q10 * data.tone
                  /\ 2 * b.q10 * data.tone <= HighFreqS(b)
    IN  [k \in 1..Len(data.samples) |-> IF inside THEN data.samples[k] ELSE 0]

\* 10 ** (gain / 20), in hundredths.
LinearGain(gain) ==
    CASE gain = -20 -> 10
      [] gain = -6 -> 50
      [] gain = 0 -> 100
      [] gain = 6 -> 200
      [] gain = 20 -> 1000

\* band_filtered * (10 ** (gain / 20)): a float64 array (hundredths).
Scaled(samples, gain) ==
    [dtype |-> "float64",
     values |-> [k \in 1..Len(samples) |-> samples[k] * LinearGain(gain)]]

\* np.zeros_like(data, dtype=np.int16)
ZerosLike(data) ==
    [dtype |-> "int16", values |-> [k \in 1..Len(data.samples) |-> 0]]

Raised(err) == [status |-> "ValueError", err |-> err, out |-> NoOutput]

\* The loop over eq_bands.items(), from the i-th band on; each band's result
\* is assigned to equalized_data.
RECURSIVE EqualizerLoop(_, _, _, _, _)
EqualizerLoop(bands, i, data, samplerate, equalized_data) ==
    IF i > Len(bands)
    THEN [status |-> "ok", err |-> "none", out |-> equalized_data]
    ELSE IF ~LimitsOk(bands[i], samplerate) THEN Raised("limits")
    ELSE IF ~ButterCriticalOk(bands[i], samplerate) THEN Raised("critical")
    ELSE IF ~FiltFiltLenOk(data) THEN Raised("padlen")
    ELSE EqualizerLoop(bands, i + 1, data, samplerate,
                       Scaled(FiltFilt(bands[i], data), bands[i].gain))

ApplyEqualizerNoEmptyCheck(bands, data, samplerate) ==
    EqualizerLoop(bands, 1, data, samplerate, ZerosLike(data))

ApplyEqualizerResult(bands, data, samplerate) ==
    IF bands = <<>>
    THEN [status |-> "ok", err |-> "none",
          out |-> [dtype |-> "int16", values |-> data.samples]]
    ELSE EqualizerLoop(bands, 1, data, samplerate, ZerosLike(data))

\* A call apply_equalizer(data, samplerate); it reads audio_set.eq_bands.
apply_equalizer(data, samplerate) ==
    LET r == ApplyEqualizerResult(eq_bands, data, samplerate)
    IN  /\ eq' = [status |-> r.status, err |-> r.err, data |-> data,
                  samplerate |-> samplerate, out |-> r.out]
        /\ eq_current' = TRUE
        /\ UNCHANGED <<eq_bands, global_gain>>
        /\ UNCHANGED streamVars
        /\ UNCHANGED queueVars

(***************************************************************************)
(* The rest of the state as construction leaves it: no caller holds a      *)
(* mapping, no call was made, the lock is free, rec_set has its defaults   *)
(* and the controller has no stream.                                       *)
(***************************************************************************)
DEFAULT_BIT_DEPTH == 24
DEFAULT_SAMPLING_FREQ == 192000
MAX_FREQ == 192000
MIN_FREQ == 5000
DefaultFrameSize == 1024
DefaultSessionNumber == 0

\* A Python value whose type the setter looks at: an int, a float, bytes (v is
\* the length), None, a str.
PyVal(type, v) == [type |-> type, v |-> v]
PyNone == PyVal("NoneType", 0)

\* RecordingSettings.__init__; the session name is held as its characters.
DefaultRec ==
    [ bit_depth |-> DEFAULT_BIT_DEPTH,
      sampling_freq |-> DEFAULT_SAMPLING_FREQ,
      directory |-> "path\\to\\save\\audio",
      session_number |-> DefaultSessionNumber,
      session_name |-> << "D", "e", "f", "a", "u", "l", "t", "_",
                          "S", "e", "s", "s", "i", "o", "n" >>,
      frame_size |-> PyVal("int", DefaultFrameSize),
      in_data_bytes |-> PyNone ]

NoSetterCall == [field |-> "none", value |-> 0, raised |-> FALSE, before |-> DefaultRec]

NoMapping == [valid |-> FALSE, alias |-> FALSE, at_return |-> <<>>, now |-> <<>>]
NoArg == [type |-> "none", table |-> <<>>]
NoCall ==
    [ op |-> "none", prev |-> [op |-> "none", had |-> 0], band_id |-> 0, arg |-> NoArg,
      raised |-> FALSE, before |-> [bands |-> <<>>, gain |-> 0], ret |-> <<>> ]

Threads == {"w1", "w2", "r1"}
Idle == [at |-> "idle", band_id |-> 0, band |-> <<>>]

\* self.stream = None
NoStream == 0
NoLifeCall == [op |-> "none", outcome |-> "none", before |-> NoStream, opened |-> 0]

NoStopCall == [calls |-> <<>>, raised |-> FALSE, stream_before |-> "none", audio_before |-> "live"]
AtStart == [at |-> "start", exit |-> "none", stopped |-> FALSE]
NoRate == [used |-> 0, held |-> 0]
NoIter == [at |-> "idle", i |-> 0, size |-> 0, used |-> <<>>, instants |-> {}, status |-> "none"]

\* The AudioSettings objects: the module-global sound_processing.audio_set
\* and the one a streamer is built with.
ObjNames == {"module", "streamer"}
NoObjCall ==
    [op |-> "none", on |-> "none", other_before |-> <<>>, default_before |-> <<>>,
     used |-> <<>>, held |-> <<>>]

\* dicts[1] is the dict of constant.DEFAULT_EQ_BANDS; AudioSettings.__init__
\* makes self._eq_bands that dict.
NewObjects ==
    [dicts |-> << DEFAULT_EQ_BANDS >>, of |-> [o \in ObjNames |-> 1], call |-> NoObjCall]

\* No AudioStreamer() has been built; the RecordingSettings object of the
\* default argument has the attributes its __init__ gives it.
NoStreamers ==
    [has_channels |-> FALSE, n |-> 0, status |-> "none", cursor |-> 0, queue |-> <<>>]

InitLate ==
    /\ objects = NewObjects
    /\ streamers = NoStreamers
    /\ audio = "live"
    /\ stop_call = NoStopCall
    /\ ctl = AtStart
    /\ streamer_rate = DefaultRec.sampling_freq
    /\ cb_rate = NoRate
    /\ rec_lock = "free"
    /\ eq_iter = NoIter

InitAdded ==
    /\ InitLate
    /\ got_bands = NoMapping
    /\ last_call = NoCall
    /\ audio_lock = "free"
    /\ pc = [t \in Threads |-> Idle]
    /\ observed = <<>>
    /\ rec = DefaultRec
    /\ rec_call = NoSetterCall
    /\ stream = NoStream
    /\ pa_streams = <<>>
    /\ life_call = NoLifeCall

(***************************************************************************)
(* Spec: a controller bound to a loaded source buffer; the backend (or any *)
(* caller) invokes the callback repeatedly.                                *)
(***************************************************************************)
Init ==
    /\ in_data \in {Buffer(n) : n \in BufLens}
    /\ channels \in ChannelCounts
    /\ frame_start_index = 0
    /\ cb = NoCallback
    /\ audio_queue = <<>>
    /\ enqueued = 0
    /\ dequeued = 0
    /\ q_ret = NoRead
    /\ eq_bands = DEFAULT_EQ_BANDS
    /\ global_gain = DEFAULT_GLOBAL_GAIN
    /\ eq = NoEqCall
    /\ eq_current = FALSE
    /\ InitAdded

Next == \E frame_count \in FrameCounts : Callback(frame_count) /\ UNCHANGED addedVars

Spec == Init /\ [][Next]_vars

(***************************************************************************)
(* Claims about the callback's walk of the source buffer (under Spec).     *)
(***************************************************************************)

\* C1: every callback takes exactly the slice [c, min(c + frame_count*channels, L))
\* of the source buffer, c being the cursor before the call, and leaves the
\* cursor at the slice's end; so the first slice starts at 0 and each later
\* slice starts where the previous one ended.
C1_SliceIsNextChunk ==
    [][ LET c == frame_start_index
            L == Len(in_data)
            e == Min(c + cb'.frame_count * channels, L)
        IN  /\ cb'.frame_count > 0
            /\ cb'.start = c
            /\ cb'.end = e
            /\ cb'.frame_np = [k \in 1..(e - c) |-> in_data[c + k]]
            /\ frame_start_index' = e
            /\ (cb.status = "none" => cb'.start = 0)
            /\ (cb.status # "none" => cb'.start = cb.end) ]_vars

\* The fourth callback of the example L = 1000, frame_count = 300, channels = 1:
\* the short final slice [900, 1000).
C1_Witness ==
    /\ Len(in_data) = 1000
    /\ channels = 1
    /\ cb.status # "none"
    /\ cb.frame_count = 300
    /\ cb.start = 900
    /\ cb.end = 1000
    /\ Len(cb.frame_np) = 100
    /\ cb.frame_np[1] = SampleAt(900)
    /\ cb.frame_np[100] = SampleAt(999)

\* C2: the cursor stays within 0..L and no step decreases it.
C2_CursorBoundedMonotonic ==
    /\ [](0 <= frame_start_index /\ frame_start_index <= Len(in_data))
    /\ [][frame_start_index' >= frame_start_index]_vars

\* A callback whose requested end lay beyond the buffer left the cursor at L.
C2_Witness ==
    /\ cb.status # "none"
    /\ Len(in_data) > 0
    /\ cb.start < Len(in_data)
    /\ cb.start + cb.frame_count * channels > Len(in_data)
    /\ frame_start_index = Len(in_data)

\* C3: a callback returns 'continue' while source samples remain after the call
\* and 'complete' when the end of the buffer is reached in that call (which
\* includes a call made with the cursor already at the end).
C3_SignalFollowsRemaining ==
    cb.status # "none" =>
        IF cb.end < Len(in_data)
        THEN cb.flag = "paContinue"
        ELSE cb.flag = "paComplete"

(***************************************************************************)
(* SpecQueue: a RecordingSettings object whose queue is fed and read.      *)
(***************************************************************************)
InitQueue ==
    /\ in_data = <<>>
    /\ channels = 1
    /\ frame_start_index = 0
    /\ cb = NoCallback
    /\ audio_queue = <<>>
    /\ enqueued = 0
    /\ dequeued = 0
    /\ q_ret = NoRead
    /\ eq_bands = DEFAULT_EQ_BANDS
    /\ global_gain = DEFAULT_GLOBAL_GAIN
    /\ eq = NoEqCall
    /\ eq_current = FALSE
    /\ InitAdded

NextQueue ==
    \/ AddToAudioQueue /\ UNCHANGED addedVars
    \/ get_from_audio_queue /\ UNCHANGED addedVars
    \/ get_concatenated_audio /\ UNCHANGED addedVars

SpecQueue == InitQueue /\ [][NextQueue]_vars

\* C4: get_concatenated_audio returns the samples of the frames that are on the
\* queue in the order they were enqueued: the tags of the samples enqueued and
\* not removed, ascending.
C4_ConcatInEnqueueOrder ==
    q_ret.op = "concat" =>
        q_ret.value = [k \in 1..(q_ret.enq - q_ret.deq) |-> q_ret.deq + k]

\* A concatenation of three frames, after an earlier frame was removed.
C4_Witness ==
    /\ q_ret.op = "concat"
    /\ q_ret.enq = enqueued
    /\ q_ret.deq = dequeued
    /\ dequeued > 0
    /\ Len(audio_queue) = 3
    /\ \A i \in 1..3 : Len(audio_queue[i]) > 0
    /\ Len(q_ret.value) >= 3

(***************************************************************************)
(* SpecEq: the settings object apply_equalizer reads is reconfigured and   *)
(* apply_equalizer is called on test frames.                               *)
(***************************************************************************)
InitEq == InitQueue

NextEq ==
    \/ \E id \in BandIds, c \in BandChoices :
          add_eq_band(id, c[1], c[2], c[3]) /\ UNCHANGED addedVars
    \/ \E id \in BandIds : remove_eq_band(id) /\ UNCHANGED addedVars
    \/ clear_eq_bands /\ UNCHANGED addedVars
    \/ \E g \in GainChoices : set_global_gain(g) /\ UNCHANGED addedVars
    \/ \E d \in EqFrames, r \in SampleRates : apply_equalizer(d, r) /\ UNCHANGED addedVars

SpecEq == InitEq /\ [][NextEq]_vars

(***************************************************************************)
(* Claims about apply_equalizer (under SpecEq).  While eq_current holds,   *)
(* eq_bands and global_gain are the settings the call recorded in eq read. *)
(* The band edges of the claims are computed here from their own formulas  *)
(* (times 2*q10): low_edge = center - center/(2q), high_edge = center +    *)
(* center/(2q), nyquist = sample_rate/2.                                   *)
(***************************************************************************)
EdgeLow(b) == (2 * b.q10 * b.freq) - (10 * b.freq)
EdgeHigh(b) == (2 * b.q10 * b.freq) + (10 * b.freq)
EdgeNyquist(b, rate) == rate * b.q10

BandInvalid(b, rate) ==
    \/ EdgeLow(b) <= 0
    \/ EdgeHigh(b) >= EdgeNyquist(b, rate)
    \/ EdgeLow(b) >= EdgeHigh(b)

AllBandsValid(bands, rate) ==
    \A i \in 1..Len(bands) : ~BandInvalid(bands[i], rate)

EqCalled == eq_current /\ eq.status # "none"

\* C5: with an empty band table the call returns its input frame, sample for
\* sample, whatever the frame and the sample rate.
C5_EmptyTableIsIdentity ==
    (EqCalled /\ eq_bands = <<>>) =>
        /\ eq.status = "ok"
        /\ eq.out.dtype = "int16"
        /\ eq.out.values = eq.data.samples

C5_Witness ==
    /\ EqCalled
    /\ eq_bands = <<>>
    /\ Len(eq.data.samples) = MaxEqLen
    /\ eq.out.values = eq.data.samples

\* C6: the call fails with a ValueError and no output whenever some band of the
\* table has low_edge <= 0, high_edge >= nyquist or low_edge >= high_edge, and
\* it raises no band-limit error when every band has
\* 0 < low_edge < high_edge < nyquist.
C6_InvalidBandRejected ==
    EqCalled =>
        /\ ~AllBandsValid(eq_bands, eq.samplerate) =>
              (eq.status = "ValueError" /\ eq.out = NoOutput)
        /\ AllBandsValid(eq_bands, eq.samplerate) =>
              eq.err \notin {"limits", "critical"}

\* The example center 4000, q 0.1, rate 8000: rejected, no output.
C6_Witness ==
    /\ EqCalled
    /\ Len(eq_bands) = 1
    /\ eq_bands[1].freq = 4000
    /\ eq_bands[1].q10 = 1
    /\ eq.samplerate = 8000
    /\ eq.status = "ValueError"
    /\ eq.err = "limits"
    /\ eq.out = NoOutput

\* The sum over the bands of each band's filtered signal times its linear gain.
RECURSIVE BandSum(_, _, _)
BandSum(bands, i, data) ==
    IF i > Len(bands)
    THEN [k \in 1..Len(data.samples) |-> 0]
    ELSE LET rest == BandSum(bands, i + 1, data)
             this == Scaled(FiltFilt(bands[i], data), bands[i].gain).values
         IN  [k \in 1..Len(data.samples) |-> this[k] + rest[k]]

\* C7: for a table of valid bands the output is the sum over all bands of the
\* band's filtered contribution scaled by its linear gain.
C7_OutputIsBandSum ==
    (EqCalled /\ eq.status = "ok" /\ eq_bands # <<>>) =>
        eq.out.values = BandSum(eq_bands, 1, eq.data)

\* C8: every sample of the equalized frame lies in the 16-bit signed range
\* (values of a float64 frame are in hundredths).
C8_OutputClamped ==
    (EqCalled /\ eq.status = "ok") =>
        \A k \in 1..Len(eq.out.values) :
            LET unit == IF eq.out.dtype = "float64" THEN 100 ELSE 1
            IN  /\ eq.out.values[k] >= Int16Min * unit
                /\ eq.out.values[k] <= Int16Max * unit

\* C9: with a single valid band the call returns, for every input slice, a
\* frame with as many samples as its input.
C9_SameLength ==
    (EqCalled /\ Len(eq_bands) = 1 /\ AllBandsValid(eq_bands, eq.samplerate)) =>
        /\ eq.status = "ok"
        /\ Len(eq.out.values) = Len(eq.data.samples)

\* C10: the output is the band output times the linear multiplier of the
\* global gain of the settings (stated for a single band, whose contribution
\* is the whole sum).
C10_GlobalGainApplied ==
    (EqCalled /\ eq.status = "ok" /\ Len(eq_bands) = 1) =>
        LET band == FiltFilt(eq_bands[1], eq.data)
            gain == (LinearGain(eq_bands[1].gain) * LinearGain(global_gain)) \div 100
        IN  eq.out.values = [k \in 1..Len(band) |-> band[k] * gain]

(***************************************************************************)
(* AudioSettings: the eq_bands property.  The getter returns the dict the  *)
(* object holds, not a copy; the setter makes the object hold the dict it  *)
(* was given.  An argument of the setter is [type, table]: the Python type *)
(* of the value and, for a dict or a list, its entries.                    *)
(***************************************************************************)
Band(band_id, freq, gain, q10) == [id |-> band_id, freq |-> freq, gain |-> gain, q10 |-> q10]

\* The values the setter is driven with: three dicts of (freq, gain, q) bands,
\* a dict whose value has q = 0, a list of triples and None.
SetterArgs ==
    { [type |-> "dict", table |-> <<>>],
      [type |-> "dict", table |-> << Band(2, 8000, 20, 10) >>],
      [type |-> "dict", table |-> << Band(2, 4000, 20, 1), Band(1, 8000, 20, 10) >>],
      [type |-> "dict", table |-> << Band(1, 4000, -6, 0) >>],
      [type |-> "list", table |-> << Band(1, 4000, -6, 10) >>],
      [type |-> "NoneType", table |-> <<>>] }

\* isinstance(bands, dict) fails: the setter raises ValueError.
SetterRaises(bands) == bands.type # "dict"

\* audio_set.eq_bands = bands
set_eq_bands(bands) ==
    /\ eq_bands' = IF SetterRaises(bands) THEN eq_bands ELSE bands.table
    /\ eq_current' = IF SetterRaises(bands) THEN eq_current ELSE FALSE
    /\ UNCHANGED <<global_gain, eq>>
    /\ UNCHANGED streamVars
    /\ UNCHANGED queueVars

\* audio_set.eq_bands read: nothing of the object changes.
get_eq_bands ==
    /\ UNCHANGED eqVars
    /\ UNCHANGED streamVars
    /\ UNCHANGED queueVars

\* The mapping a caller has just been returned: the object's own dict.
Returned(bands) == [valid |-> TRUE, alias |-> TRUE, at_return |-> bands, now |-> bands]

\* The caller's mapping after a call that changed the object's dict in place
\* (bands is the dict after the call), and after the setter made the object
\* hold another dict.
Mutated(got, bands) == IF got.alias THEN [got EXCEPT !.now = bands] ELSE got
Rebound(got) == [got EXCEPT !.alias = FALSE]

(***************************************************************************)
(* SpecSnapshot: one caller reads eq_bands and keeps the mapping while the *)
(* table is written.                                                       *)
(***************************************************************************)
SnapChoices == { <<4000, -6, 10>>, <<8000, 20, 10>> }

otherThanGot == <<last_call, raceVars, sessionVars, lifeVars, lateVars>>

InitSnapshot == InitQueue

NextSnapshot ==
    \/ get_eq_bands /\ got_bands' = Returned(eq_bands) /\ UNCHANGED otherThanGot
    \/ \E id \in BandIds, c \in SnapChoices :
          /\ add_eq_band(id, c[1], c[2], c[3])
          /\ got_bands' = Mutated(got_bands, eq_bands')
          /\ UNCHANGED otherThanGot
    \/ \E id \in BandIds :
          /\ remove_eq_band(id)
          /\ got_bands' = Mutated(got_bands, eq_bands')
          /\ UNCHANGED otherThanGot
    \/ /\ clear_eq_bands
       /\ got_bands' = Mutated(got_bands, eq_bands')
       /\ UNCHANGED otherThanGot
    \/ \E bands \in SetterArgs :
          /\ set_eq_bands(bands)
          /\ got_bands' = IF SetterRaises(bands) THEN got_bands ELSE Rebound(got_bands)
          /\ UNCHANGED otherThanGot

SpecSnapshot == InitSnapshot /\ [][NextSnapshot]_vars

\* C11: the mapping the getter returned is a snapshot: whatever is added,
\* removed, cleared or set afterwards, the returned mapping still has the
\* content it had when it was returned.
C11_ReturnedMappingIsSnapshot ==
    got_bands.valid => got_bands.now = got_bands.at_return

(***************************************************************************)
(* SpecRace: two threads call add_eq_band and a third reads eq_bands and   *)
(* then the bands of the mapping it got, in any interleaving.  A call is   *)
(* taken apart at the lock: `with self._lock` waits until the lock is free *)
(* and takes it, the body runs, leaving the block frees the lock.  The     *)
(* store d[band_id] = (freq, gain, q) puts a built tuple under the key in  *)
(* one step of the interpreter; a tuple is immutable.                      *)
(***************************************************************************)
Writers == {"w1", "w2"}
Readers == {"r1"}

\* The (freq, gain, q10) values written: no field of one occurs in the other
\* or in the default band.
RaceChoices == { <<8000, 20, 5>>, <<12000, 6, 20>> }

otherThanRace == <<callerVars, sessionVars, lifeVars, lateVars>>

\* add_eq_band is called with (band_id, freq, gain, q).
AddCall(t, band_id, c) ==
    /\ pc[t].at = "idle"
    /\ pc' = [pc EXCEPT ![t] = [at |-> "add_lock", band_id |-> band_id, band |-> c]]
    /\ UNCHANGED <<audio_lock, observed>>
    /\ UNCHANGED <<streamVars, queueVars, eqVars>>

\* with self._lock:
AddAcquire(t) ==
    /\ pc[t].at = "add_lock"
    /\ audio_lock = "free"
    /\ audio_lock' = t
    /\ pc' = [pc EXCEPT ![t].at = "add_store"]
    /\ UNCHANGED observed
    /\ UNCHANGED <<streamVars, queueVars, eqVars>>

\* self._eq_bands[band_id] = (freq, gain, q)
AddStore(t) ==
    /\ pc[t].at = "add_store"
    /\ add_eq_band(pc[t].band_id, pc[t].band[1], pc[t].band[2], pc[t].band[3])
    /\ pc' = [pc EXCEPT ![t].at = "add_unlock"]
    /\ UNCHANGED <<audio_lock, observed>>

\* the with block is left
AddRelease(t) ==
    /\ pc[t].at = "add_unlock"
    /\ audio_lock' = "free"
    /\ pc' = [pc EXCEPT ![t] = Idle]
    /\ UNCHANGED observed
    /\ UNCHANGED <<streamVars, queueVars, eqVars>>

\* the eq_bands getter is called
GetCall(t) ==
    /\ pc[t].at = "idle"
    /\ pc' = [pc EXCEPT ![t].at = "get_lock"]
    /\ UNCHANGED <<audio_lock, observed>>
    /\ UNCHANGED <<streamVars, queueVars, eqVars>>

\* with self._lock:
GetAcquire(t) ==
    /\ pc[t].at = "get_lock"
    /\ audio_lock = "free"
    /\ audio_lock' = t
    /\ pc' = [pc EXCEPT ![t].at = "get_return"]
    /\ UNCHANGED observed
    /\ UNCHANGED <<streamVars, queueVars, eqVars>>

\* return self._eq_bands: the lock is freed, the caller holds the dict
GetReturn(t) ==
    /\ pc[t].at = "get_return"
    /\ get_eq_bands
    /\ audio_lock' = "free"
    /\ pc' = [pc EXCEPT ![t].at = "holding"]
    /\ UNCHANGED observed

\* the caller reads bands[band_id] of the mapping it holds, outside the lock
ReadBand(t, band_id) ==
    /\ pc[t].at = "holding"
    /\ HasBand(eq_bands, band_id)
    /\ observed' = CHOOSE b \in {eq_bands[i] : i \in 1..Len(eq_bands)} : b.id = band_id
    /\ UNCHANGED <<audio_lock, pc>>
    /\ UNCHANGED <<streamVars, queueVars, eqVars>>

\* the caller lets the mapping go
Forget(t) ==
    /\ pc[t].at = "holding"
    /\ pc' = [pc EXCEPT ![t] = Idle]
    /\ UNCHANGED <<audio_lock, observed>>
    /\ UNCHANGED <<streamVars, queueVars, eqVars>>

InitRace == InitQueue

NextRace ==
    \/ \E t \in Writers, id \in BandIds, c \in RaceChoices :
          AddCall(t, id, c) /\ UNCHANGED otherThanRace
    \/ \E t \in Writers : AddAcquire(t) /\ UNCHANGED otherThanRace
    \/ \E t \in Writers : AddStore(t) /\ UNCHANGED otherThanRace
    \/ \E t \in Writers : AddRelease(t) /\ UNCHANGED otherThanRace
    \/ \E t \in Readers : GetCall(t) /\ UNCHANGED otherThanRace
    \/ \E t \in Readers : GetAcquire(t) /\ UNCHANGED otherThanRace
    \/ \E t \in Readers : GetReturn(t) /\ UNCHANGED otherThanRace
    \/ \E t \in Readers, id \in BandIds : ReadBand(t, id) /\ UNCHANGED otherThanRace
    \/ \E t \in Readers : Forget(t) /\ UNCHANGED otherThanRace

SpecRace == InitRace /\ [][NextRace]_vars

\* The bands that are whole: the default band and, for each id, each triple
\* some add_eq_band call was given.
WholeBands ==
    { DEFAULT_EQ_BANDS[1] } \cup
    { Band(id, c[1], c[2], c[3]) : id \in BandIds, c \in RaceChoices }

\* C12: however add_eq_band calls and reads interleave, a band value a reader
\* observes is a whole (freq, gain, q) triple that one add_eq_band call wrote
\* (or the default band): never fields of two writes mixed.
C12_NoTornRead ==
    observed # <<>> => observed \in WholeBands

\* The reader has read band 1 as the first writer stored it, while the second
\* writer holds the lock and is about to store another triple under band 1.
C12_Witness ==
    /\ observed = Band(1, 8000, 20, 5)
    /\ pc["r1"].at = "holding"
    /\ audio_lock = "w2"
    /\ pc["w2"] = [at |-> "add_store", band_id |-> 1, band |-> <<12000, 6, 20>>]

(***************************************************************************)
(* SpecSettings: the calls on audio_set, one after another.  last_call     *)
(* keeps the latest call: its name, its arguments, whether it raised, the  *)
(* table and the gain before it, what it returned, and of the call before  *)
(* it the name and the number of bands the table had.                      *)
(***************************************************************************)
otherThanCall == <<got_bands, raceVars, sessionVars, lifeVars, lateVars>>

Called(op, band_id, arg, raised, ret) ==
    /\ last_call' = [ op |-> op,
                      prev |-> [op |-> last_call.op, had |-> Len(last_call.before.bands)],
                      band_id |-> band_id, arg |-> arg, raised |-> raised,
                      before |-> [bands |-> eq_bands, gain |-> global_gain],
                      ret |-> ret ]
    /\ UNCHANGED otherThanCall

InitSettings == InitQueue

NextSettings ==
    \/ get_eq_bands /\ Called("get", 0, NoArg, FALSE, Returned(eq_bands).now)
    \/ \E bands \in SetterArgs :
          set_eq_bands(bands) /\ Called("set", 0, bands, SetterRaises(bands), <<>>)
    \/ \E id \in BandIds, c \in SnapChoices :
          add_eq_band(id, c[1], c[2], c[3]) /\ Called("add", id, NoArg, FALSE, <<>>)
    \/ \E id \in BandIds : remove_eq_band(id) /\ Called("remove", id, NoArg, FALSE, <<>>)
    \/ clear_eq_bands /\ Called("clear", 0, NoArg, FALSE, <<>>)
    \/ \E g \in GainChoices : set_global_gain(g) /\ Called("gain", 0, NoArg, FALSE, <<>>)

SpecSettings == InitSettings /\ [][NextSettings]_vars

\* A band as the data model has it: a centre frequency above 0 and a q above 0.
ValidBand(b) == b.freq > 0 /\ b.q10 > 0

ValidBandMapping(arg) ==
    /\ arg.type = "dict"
    /\ \A i \in 1..Len(arg.table) : ValidBand(arg.table[i])

\* C13: the setter given a valid band mapping makes the table equal to it;
\* given anything else (not a mapping, or a mapping with a value that is not a
\* band) it raises and leaves the table as it was.
C13_SetBandsValidOrRejected ==
    last_call.op = "set" =>
        IF ValidBandMapping(last_call.arg)
        THEN ~last_call.raised /\ eq_bands = last_call.arg.table
        ELSE last_call.raised /\ eq_bands = last_call.before.bands

\* C14: remove_eq_band never raises and leaves the global gain alone; with an
\* id the table does not have it leaves the table as it was, with an id the
\* table has it removes that id and keeps every other band.
C14_RemoveOnlyThatBand ==
    last_call.op = "remove" =>
        LET before == last_call.before.bands
            id == last_call.band_id
        IN  /\ ~last_call.raised
            /\ global_gain = last_call.before.gain
            /\ ~HasBand(eq_bands, id)
            /\ IF HasBand(before, id)
               THEN /\ Len(eq_bands) = Len(before) - 1
                    /\ \A i \in 1..Len(before) :
                          before[i].id # id =>
                              \E j \in 1..Len(eq_bands) : eq_bands[j] = before[i]
               ELSE eq_bands = before

\* remove_eq_band(2) on a table that holds band 1 only, the gain being 20 dB.
C14_Witness ==
    /\ last_call.op = "remove"
    /\ last_call.band_id = 2
    /\ last_call.before.bands = << Band(1, 8000, 20, 10) >>
    /\ eq_bands = << Band(1, 8000, 20, 10) >>
    /\ global_gain = 20

\* C15: clear_eq_bands leaves the table empty whatever it held, and a read of
\* eq_bands that follows it with no call in between returns the empty mapping.
C15_ClearThenGetIsEmpty ==
    /\ last_call.op = "clear" => eq_bands = <<>>
    /\ (last_call.op = "get" /\ last_call.prev.op = "clear") => last_call.ret = <<>>

\* A read right after clear_eq_bands emptied a table of two bands.
C15_Witness ==
    /\ last_call.op = "get"
    /\ last_call.prev = [op |-> "clear", had |-> 2]
    /\ last_call.ret = <<>>

(***************************************************************************)
(* RecordingSettings: the setters that validate.  Each tests its argument  *)
(* and raises ValueError, or takes the object's lock and assigns the one   *)
(* field.  rec_call keeps the latest call: the field, the value given,     *)
(* whether it raised, and all fields before it.                            *)
(***************************************************************************)

\* Python's `a or b` on numbers: a if a is not zero, else b.
PyOr(a, b) == IF a # 0 THEN a ELSE b

\* A setter that assigns before it validates.
StoreFieldAlways(r, field, value, ok) == [r EXCEPT ![field] = value]

\* with self._lock: self._<field> = value, reached only when the test passed
StoreField(r, field, value, ok) == IF ok THEN [r EXCEPT ![field] = value] ELSE r

\* One setter call.
Setter(field, value, ok) ==
    /\ rec' = StoreField(rec, field, value, ok)
    /\ rec_call' = [field |-> field, value |-> value, raised |-> ~ok, before |-> rec]
    /\ UNCHANGED <<streamVars, queueVars, eqVars>>
    /\ UNCHANGED <<callerVars, raceVars, lifeVars, lateVars>>

\* frame_size setter: raises if not isinstance(value, int) or value <= 0
set_frame_size(value) ==
    Setter("frame_size", value, ~(value.type # "int" \/ value.v <= 0))

\* in_data_bytes setter: raises if value is not None and is not bytes or bytearray
set_in_data_bytes(value) ==
    Setter("in_data_bytes", value,
           ~(value.type # "NoneType" /\ value.type \notin {"bytes", "bytearray"}))

\* bit_depth setter: raises if value != (16 or 24)
set_bit_depth(value) ==
    Setter("bit_depth", value, ~(value # PyOr(16, 24)))

\* A range test that forgot the lower end.
SetSamplingFreqNoMin(fs) ==
    Setter("sampling_freq", fs, fs <= MAX_FREQ)

\* sampling_freq setter: raises if not (MIN_FREQ <= fs <= MAX_FREQ)
set_sampling_freq(fs) ==
    Setter("sampling_freq", fs, MIN_FREQ <= fs /\ fs <= MAX_FREQ)

\* directory setter: raises if not os.path.isdir, then if not os.access(W_OK);
\* the file system has the directories /rec (writable) and /mnt/readonly (not).
set_directory(directory_path) ==
    Setter("directory", directory_path,
           ~(directory_path \notin {"/rec", "/mnt/readonly"})
           /\ ~(directory_path \notin {"/rec"}))

\* session_number setter: raises if not (0 < n_session < 999)
set_session_number(n_session) ==
    Setter("session_number", n_session, 0 < n_session /\ n_session < 999)

\* session_name setter: raises if not (0 < len(name) < 20)
set_session_name(name) ==
    Setter("session_name", name, 0 < Len(name) /\ Len(name) < 20)

InitSession == InitQueue

NextSession ==
    \/ \E fs \in {MIN_FREQ - 1, MIN_FREQ, 44100, MAX_FREQ, MAX_FREQ + 1} :
          set_sampling_freq(fs)
    \/ \E value \in {8, 16, 24, 32} : set_bit_depth(value)
    \/ \E value \in {PyVal("int", 0), PyVal("int", -1), PyVal("int", 512), PyVal("float", 512)} :
          set_frame_size(value)
    \/ \E directory_path \in {"/rec", "/mnt/readonly", "/missing"} :
          set_directory(directory_path)
    \/ \E n_session \in {0, 1, 998, 999} : set_session_number(n_session)
    \/ \E name \in {<<>>, <<"t", "a", "k", "e", "1">>,
                    [i \in 1..19 |-> "x"], [i \in 1..20 |-> "x"]} :
          set_session_name(name)
    \/ \E value \in {PyNone, PyVal("bytes", 4), PyVal("bytearray", 4), PyVal("str", 4)} :
          set_in_data_bytes(value)

SpecSession == InitSession /\ [][NextSession]_vars

\* C16: after a setter call either the call did not raise and the field holds
\* the value given, or it raised and the field holds the value it had; every
\* other field holds the value it had.  A setter assigns once, so no reader
\* sees a value between the two.
C16_SetterStoresOrRaises ==
    rec_call.field # "none" =>
        \A f \in DOMAIN rec :
            rec[f] = IF f = rec_call.field /\ ~rec_call.raised
                     THEN rec_call.value
                     ELSE rec_call.before[f]

\* A frame size of 0 is refused after other fields were set: nothing moved.
C16_Witness ==
    /\ rec_call.field = "frame_size"
    /\ rec_call.value = PyVal("int", 0)
    /\ rec_call.raised
    /\ rec = rec_call.before
    /\ rec.sampling_freq = 44100
    /\ rec.directory = "/rec"
    /\ rec.frame_size = PyVal("int", 512)

\* C17: the stored sampling rate is always within [MIN_FREQ, MAX_FREQ]; the
\* setter stores a rate within the range as given, and raises for a rate
\* outside it, which is neither stored nor clamped.
C17_SamplingFreqInRange ==
    /\ MIN_FREQ <= rec.sampling_freq
    /\ rec.sampling_freq <= MAX_FREQ
    /\ rec_call.field = "sampling_freq" =>
          LET fs == rec_call.value
          IN  IF MIN_FREQ <= fs /\ fs <= MAX_FREQ
              THEN ~rec_call.raised /\ rec.sampling_freq = fs
              ELSE rec_call.raised /\ rec.sampling_freq = rec_call.before.sampling_freq

\* MIN_FREQ - 1 is refused while the rate is 44100, which stays.
C17_Witness ==
    /\ rec_call.field = "sampling_freq"
    /\ rec_call.value = MIN_FREQ - 1
    /\ rec_call.raised
    /\ rec.sampling_freq = 44100

\* C18: the bit-depth setter accepts 16 and accepts 24 and refuses every other
\* value; the stored bit depth is always 16 or 24.
C18_BitDepthSixteenOrTwentyFour ==
    /\ rec.bit_depth \in {16, 24}
    /\ rec_call.field = "bit_depth" =>
          (rec_call.value \in {16, 24} <=> ~rec_call.raised)

(***************************************************************************)
(* AudioStreamer.start_stream and the backend (PyAudio over PortAudio).    *)
(*                                                                         *)
(* pa_streams holds the streams the backend has opened, by handle 1, 2,    *)
(* ...; a stream is "unstarted", "active", "aborted", "broken" or          *)
(* "closed".  PyAudio.open                                                 *)
(* builds a Stream with start=True: it opens the PortAudio stream and      *)
(* starts it before it returns, and raises OSError when either fails, in   *)
(* which case nothing is returned.  Stream.start_stream returns at once on *)
(* a stream that is running, so line 178 does nothing after line 169.  The *)
(* backend calls the callback of an active stream from its own thread;     *)
(* when the callback raises, the backend aborts the stream.  After         *)
(* terminate() the PortAudio library is not initialized and open raises.   *)
(***************************************************************************)
lateButCtl == <<audio, stop_call, streamer_rate, rec_lock, eq_iter, lastVars>>

OpenOutcomes == {"ok", "open_failed", "start_failed"}

\* The backend's streams after self.audio.open(...).
StreamsAfterOpen(streams, outcome) ==
    CASE outcome = "ok" -> Append(streams, "active")
      [] outcome = "start_failed" -> Append(streams, "unstarted")
      [] outcome = "open_failed" -> streams

\* An assignment of the handle that is made as soon as the stream is open.
StreamAfterOpenKeepsHandle(before, handle, outcome) ==
    IF outcome # "open_failed" THEN handle ELSE before

\* self.stream = self.audio.open(...): assigned only if open returned.
StreamAfterOpen(before, handle, outcome) ==
    IF outcome = "ok" THEN handle ELSE before

\* start_stream(): there is no test of self.stream before the open.
start_stream(outcome) ==
    /\ Len(pa_streams) < MaxStreams
    /\ audio = "terminated" => outcome = "open_failed"
    /\ pa_streams' = StreamsAfterOpen(pa_streams, outcome)
    /\ stream' = StreamAfterOpen(stream, Len(pa_streams) + 1, outcome)
    /\ life_call' = [op |-> "start_stream", outcome |-> outcome,
                     before |-> stream, opened |-> Len(pa_streams)]
    /\ UNCHANGED <<streamVars, queueVars, eqVars>>
    /\ UNCHANGED <<callerVars, raceVars, sessionVars, lateButCtl, cb_rate>>

\* The backend calls the callback of the active stream h with
\* frame_count = frames_per_buffer = self.frame_size; the callback raises.
BackendCallback(h) ==
    /\ pa_streams[h] = "active"
    /\ Callback(rec.frame_size.v)
    /\ pa_streams' = [pa_streams EXCEPT ![h] = IF cb'.status = "returned"
                                                THEN "active" ELSE "aborted"]
    /\ cb_rate' = [used |-> streamer_rate, held |-> rec.sampling_freq]
    /\ UNCHANGED <<stream, life_call>>
    /\ UNCHANGED <<callerVars, raceVars, sessionVars, lateButCtl>>

\* self.audio.terminate(): PyAudio closes the streams it still holds (those
\* open returned and close() has not removed) and terminates PortAudio.
TerminateStreams(streams) ==
    [h \in 1..Len(streams) |->
        IF streams[h] \in {"active", "aborted", "broken"} THEN "closed" ELSE streams[h]]

\* stop_stream().  Stream.stop_stream calls the backend only on a stream that
\* is running, and the backend may fail (stop_failed): PyAudio then discards
\* the stream and raises OSError, and raises again on every later
\* stop_stream of that stream.  On a stream that was stopped it returns at
\* once, and Stream.close and PyAudio.terminate do nothing the second time.
\* self.stream and self.audio are never assigned here.
stop_stream(outcome) ==
    LET st == IF stream = NoStream THEN "none" ELSE pa_streams[stream]
        running == st \in {"active", "aborted"}
        raises == st = "broken" \/ (running /\ outcome = "stop_failed")
    IN  /\ outcome = "stop_failed" => running
        /\ pa_streams' =
              IF raises THEN [pa_streams EXCEPT ![stream] = "broken"]
              ELSE IF st = "none" THEN TerminateStreams(pa_streams)
              ELSE TerminateStreams([pa_streams EXCEPT ![stream] = "closed"])
        /\ audio' = IF raises THEN audio ELSE "terminated"
        /\ stop_call' = [ calls |-> IF st = "none" THEN << "terminate" >>
                                    ELSE IF raises THEN << "stop" >>
                                    ELSE << "stop", "close", "terminate" >>,
                          raised |-> raises,
                          stream_before |-> st,
                          audio_before |-> audio ]
        /\ UNCHANGED <<stream, life_call>>
        /\ UNCHANGED <<streamVars, queueVars, eqVars>>
        /\ UNCHANGED <<callerVars, raceVars, sessionVars>>
        /\ UNCHANGED <<streamer_rate, cb_rate, rec_lock, eq_iter, lastVars>>

InitLife == Init

NextLife ==
    \/ \E outcome \in OpenOutcomes : start_stream(outcome) /\ UNCHANGED ctl
    \/ \E h \in 1..Len(pa_streams) : BackendCallback(h) /\ UNCHANGED ctl
    \/ \E outcome \in {"ok", "stop_failed"} : stop_stream(outcome) /\ UNCHANGED ctl

SpecLife == InitLife /\ [][NextLife]_vars

\* The streams the controller was handed: those open returned.
Handed == { h \in 1..Len(pa_streams) : pa_streams[h] # "unstarted" }

\* C19: start_stream opens a backend stream only when the controller is Idle
\* (it has no stream); called when it has one, it opens no other, so that the
\* controller is never handed more than one stream.
C19_StartOnlyWhenIdle ==
    /\ Cardinality(Handed) <= 1
    /\ (life_call.op = "start_stream" /\ life_call.before # NoStream) =>
          Len(pa_streams) = life_call.opened

\* C20: when the backend fails to open or to start the stream, start_stream
\* called on an Idle controller raises and leaves it Idle: it has no stream,
\* no stream of the backend is active or was ever active, and no callback has
\* run, then or later.
C20_FailedStartLeavesIdle ==
    (life_call.op = "start_stream" /\ life_call.outcome # "ok"
                                   /\ life_call.before = NoStream) =>
        /\ stream = NoStream
        /\ Handed = {}
        /\ cb = NoCallback
        /\ frame_start_index = 0

\* A second attempt on a loaded buffer fails at the start, after a first
\* attempt failed: the backend holds two streams it never started.
C20_Witness ==
    /\ life_call = [op |-> "start_stream", outcome |-> "start_failed",
                    before |-> NoStream, opened |-> 1]
    /\ pa_streams = << "unstarted", "unstarted" >>
    /\ stream = NoStream
    /\ Len(in_data) = MaxBufLen

(***************************************************************************)
(* Claims about stop_stream (under SpecLife).                              *)
(***************************************************************************)
StopCalled == stop_call.calls # <<>>
StopCalls == { stop_call.calls[k] : k \in 1..Len(stop_call.calls) }

\* C21: stop_stream called again after a stop_stream that completed raises
\* nothing and neither stops, closes nor terminates a handle that was already
\* released; called on a controller that has no stream it raises nothing.
C21_StopTwiceIsSafe ==
    StopCalled =>
        /\ stop_call.stream_before \in {"closed", "none"} => ~stop_call.raised
        /\ stop_call.stream_before = "closed" => StopCalls \cap {"stop", "close"} = {}
        /\ stop_call.audio_before = "terminated" => "terminate" \notin StopCalls

\* C22: every stop_stream call releases the backend device, also when
\* stopping the stream failed.
C22_StopAlwaysTerminates ==
    StopCalled => audio = "terminated" /\ "terminate" \in StopCalls

(***************************************************************************)
(* SpecMain: the main thread of main.py around a controller, with the      *)
(* backend's callback thread.  ctl.at is "start" (line 24), "started"      *)
(* (start_stream returned, streaming() not yet in its try), "loop" (the    *)
(* polling loop of streaming()), "finally" (line 35) or "saved" (the queue *)
(* was concatenated, line 37).  ctl.exit tells how the polling loop was    *)
(* left, ctl.stopped whether stop_stream was called.                       *)
(***************************************************************************)
mainRest == <<callerVars, raceVars, sessionVars>>

\* main.py:24 audio_streamer.start_stream(); an OSError is caught at line 32.
MainStart(outcome) ==
    /\ ctl.at = "start"
    /\ start_stream(outcome)
    /\ ctl' = [ctl EXCEPT !.at = IF outcome = "ok" THEN "started" ELSE "finally"]

\* main.py:27 audio_streamer.streaming(): the try block is entered.
MainStreaming ==
    /\ ctl.at = "started"
    /\ ctl' = [ctl EXCEPT !.at = "loop"]
    /\ UNCHANGED <<streamVars, queueVars, eqVars, mainRest, lifeVars, lateButCtl, cb_rate>>

\* One round of `while self.stream.is_active(): time.sleep(0.1)`: the stream
\* is active and the loop goes on, or it is not and streaming() returns, or
\* an exception other than KeyboardInterrupt arrives in the loop (is_active
\* raises; the exception of a callback is delivered to the main thread) and
\* `except Exception` prints it: streaming() returns.
Poll(result) ==
    /\ ctl.at = "loop"
    /\ result = "active" => pa_streams[stream] = "active"
    /\ result = "inactive" => pa_streams[stream] # "active"
    /\ ctl' = CASE result = "active" -> ctl
                [] result = "inactive" -> [ctl EXCEPT !.at = "finally", !.exit = "ended"]
                [] result = "error" -> [ctl EXCEPT !.at = "finally", !.exit = "error"]
    /\ UNCHANGED <<streamVars, queueVars, eqVars, mainRest, lifeVars, lateButCtl, cb_rate>>

\* Ctrl+C.  Before streaming() is in its try, main.py:29 catches it; in the
\* polling loop audio_stream.py:199 catches it and calls stop_stream(), whose
\* OSError, if any, main.py:32 catches.
KeyboardInterrupt(outcome) ==
    \/ /\ ctl.at = "started"
       /\ outcome = "ok"
       /\ ctl' = [ctl EXCEPT !.at = "finally"]
       /\ UNCHANGED <<streamVars, queueVars, eqVars, mainRest, lifeVars, lateButCtl, cb_rate>>
    \/ /\ ctl.at = "loop"
       /\ stop_stream(outcome)
       /\ ctl' = [at |-> "finally", exit |-> "interrupt", stopped |-> TRUE]

\* main.py:35-37 finally: recorded_audio = rec_set.get_concatenated_audio()
MainFinally ==
    /\ ctl.at = "finally"
    /\ get_concatenated_audio
    /\ ctl' = [ctl EXCEPT !.at = "saved"]
    /\ UNCHANGED <<mainRest, lifeVars, lateButCtl, cb_rate>>

InitMain == Init

NextMain ==
    \/ \E outcome \in OpenOutcomes : MainStart(outcome)
    \/ MainStreaming
    \/ \E result \in {"active", "inactive", "error"} : Poll(result)
    \/ \E outcome \in {"ok", "stop_failed"} : KeyboardInterrupt(outcome)
    \/ MainFinally
    \/ \E h \in 1..Len(pa_streams) : BackendCallback(h) /\ UNCHANGED ctl

SpecMain == InitMain /\ [][NextMain]_vars

\* C23: however the polling loop of streaming() was left (playback ended, the
\* operator interrupted, an unexpected error), stop_stream was executed.
C23_StopOnEveryExit ==
    ctl.exit # "none" => ctl.stopped

\* C27: the queue is concatenated only after the stream has stopped: once the
\* concatenation that produces the saved result was made, no stream is active,
\* so no callback can run and enqueue after it.
C27_ConcatenateAfterStopped ==
    ctl.at = "saved" => \A h \in 1..Len(pa_streams) : pa_streams[h] # "active"

(***************************************************************************)
(* Claims about what a callback hands back to the backend (under Spec).    *)
(***************************************************************************)

\* C24: no error raised inside the callback leaves it: a callback that was
\* invoked has returned to the backend (with the 'complete' signal when an
\* error occurred inside it).
C24_CallbackErrorsContained ==
    cb.status \in {"none", "returned"}

\* C25: a callback invoked with a valid band table and its cursor below the
\* buffer length returns its processed bytes without raising, after it passed
\* the slice through the equalizer and put the result on the queue.
C25_CallbackReturnsProcessed ==
    (cb.status # "none" /\ cb.start < Len(in_data)
                        /\ AllBandsValid(eq_bands, streamer_rate)) =>
        /\ cb.status = "returned"
        /\ cb.flag = "continue"
        /\ audio_queue # <<>>

(***************************************************************************)
(* SpecEqRace: a thread inside apply_equalizer while the controller thread *)
(* writes the band table.  apply_equalizer reads audio_set.eq_bands once   *)
(* (the getter hands it the object's dict, got_bands), tests it for        *)
(* emptiness and iterates over its items; the lock is held only inside the *)
(* getter.  A dict iterator remembers the size the dict had when the loop  *)
(* began and its position; each step raises RuntimeError if the size has   *)
(* changed, else yields the entry at its position.  eq_iter.used are the   *)
(* bands the loop was given, from which the output is computed;            *)
(* eq_iter.instants are the tables audio_set held during the call.         *)
(***************************************************************************)
InCall(it) == it.at \in {"test", "loop"}

\* line 51: eq_bands = audio_set.eq_bands
EqGet ==
    /\ ~InCall(eq_iter)
    /\ get_eq_bands
    /\ got_bands' = Returned(eq_bands)
    /\ eq_iter' = [at |-> "test", i |-> 0, size |-> 0, used |-> <<>>,
                   instants |-> {eq_bands}, status |-> "none"]

\* lines 53-54: if not eq_bands: return data; else the loop of line 59 begins
EqTest ==
    /\ eq_iter.at = "test"
    /\ get_eq_bands
    /\ eq_iter' = IF got_bands.now = <<>>
                  THEN [eq_iter EXCEPT !.at = "done", !.status = "returned"]
                  ELSE [eq_iter EXCEPT !.at = "loop", !.size = Len(got_bands.now)]
    /\ UNCHANGED got_bands

\* line 59: one step of `for band_id, (freq, gain, q) in eq_bands.items()`;
\* when the items are exhausted the function returns (line 83).
EqNext ==
    /\ eq_iter.at = "loop"
    /\ get_eq_bands
    /\ eq_iter' =
          IF Len(got_bands.now) # eq_iter.size
          THEN [eq_iter EXCEPT !.at = "done", !.status = "RuntimeError"]
          ELSE IF eq_iter.i < eq_iter.size
          THEN [eq_iter EXCEPT !.i = @ + 1,
                               !.used = Append(@, got_bands.now[eq_iter.i + 1])]
          ELSE [eq_iter EXCEPT !.at = "done", !.status = "returned"]
    /\ UNCHANGED got_bands

\* A write of the controller thread: the table after it is one more instant
\* of the call in progress.
Noted(it, bands) ==
    IF InCall(it) THEN [it EXCEPT !.instants = @ \cup {bands}] ELSE it

otherThanEqRace ==
    <<last_call, raceVars, sessionVars, lifeVars,
      audio, stop_call, ctl, streamer_rate, cb_rate, rec_lock, lastVars>>

EqRaceSetterArgs == { bands \in SetterArgs : Len(bands.table) = 0 }

InitEqRace == InitQueue

NextEqRace ==
    \/ EqGet /\ UNCHANGED otherThanEqRace
    \/ EqTest /\ UNCHANGED otherThanEqRace
    \/ EqNext /\ UNCHANGED otherThanEqRace
    \/ /\ InCall(eq_iter) => Cardinality(eq_iter.instants) < MaxInstants
       /\ \/ \E id \in BandIds, c \in SnapChoices :
                add_eq_band(id, c[1], c[2], c[3]) /\ got_bands' = Mutated(got_bands, eq_bands')
          \/ \E id \in BandIds :
                remove_eq_band(id) /\ got_bands' = Mutated(got_bands, eq_bands')
          \/ clear_eq_bands /\ got_bands' = Mutated(got_bands, eq_bands')
          \/ \E bands \in EqRaceSetterArgs :
                /\ set_eq_bands(bands)
                /\ got_bands' = IF SetterRaises(bands) THEN got_bands ELSE Rebound(got_bands)
       /\ eq_iter' = Noted(eq_iter, eq_bands')
       /\ UNCHANGED otherThanEqRace

SpecEqRace == InitEqRace /\ [][NextEqRace]_vars

\* C26: while the controller thread adds, removes, clears or replaces bands,
\* an equalizer call that has ended did not fail because the table changed
\* under it, and the bands it computed from are the table as it stood at one
\* instant of the call.
C26_ReadsOneInstant ==
    eq_iter.at = "done" =>
        /\ eq_iter.status = "returned"
        /\ eq_iter.used \in eq_iter.instants

(***************************************************************************)
(* SpecRate: the session's sampling rate is set while a stream runs.  The  *)
(* streamer copies rec_set.sampling_freq into self.rate when it is built   *)
(* (audio_stream.py line 69) and the callback passes self.rate to the      *)
(* equalizer (line 135); main.py builds the streamer (line 10) before it   *)
(* sets rec_set.sampling_freq (line 19).  cb_rate records, for the last    *)
(* callback, the rate it passed and the rate the session held.             *)
(***************************************************************************)
RateChoices == {MIN_FREQ - 1, MIN_FREQ, 44100, MAX_FREQ}

InitRate == Init

NextRate ==
    \/ \E fs \in RateChoices : set_sampling_freq(fs)
    \/ \E outcome \in OpenOutcomes : start_stream(outcome) /\ UNCHANGED ctl
    \/ \E h \in 1..Len(pa_streams) : BackendCallback(h) /\ UNCHANGED ctl

SpecRate == InitRate /\ [][NextRate]_vars

\* C28: every callback passes to the equalizer the sampling rate that the
\* session settings hold when it runs, so that after a successful call of
\* the sampling_freq setter every later callback uses the new rate.
C28_CallbackUsesHeldRate ==
    cb_rate # NoRate => cb_rate.used = cb_rate.held

(***************************************************************************)
(* SpecLocks: the threads and the two locks they take.  Every method of    *)
(* AudioSettings takes the shared "audio" lock (shared_locks.py lines 3-10)*)
(* and every method of RecordingSettings, the accessors of the settings    *)
(* and the queue operations alike, takes the one lock made at line 10 of   *)
(* recording_settings.py.  rec_lock is "free" or the thread that holds     *)
(* that lock.  The controller thread calls the sampling_freq setter,        *)
(* add_eq_band, add_to_audio_queue and get_concatenated_audio; the         *)
(* backend's thread runs the callback, which reads rec_set.in_data_bytes   *)
(* through its getter (line 114) and then runs on, taking no lock, to the  *)
(* equalizer call that raises.                                             *)
(***************************************************************************)
Controllers == {"w1"}
BackendThreads == {"r1"}

lockRest == <<callerVars, observed, audio, stop_call, ctl, streamer_rate, eq_iter, lastVars>>

\* A method of RecordingSettings that takes the lock is called.
RecCall(t, op, arg) ==
    /\ pc[t].at = "idle"
    /\ pc' = [pc EXCEPT ![t] = [at |-> "rec_lock", op |-> op, arg |-> arg]]
    /\ UNCHANGED <<audio_lock, rec_lock, cb_rate>>
    /\ UNCHANGED <<streamVars, queueVars, eqVars, sessionVars, lifeVars, lockRest>>

\* sampling_freq setter: the range test comes before the with block
SamplingFreqCall(t, fs) ==
    IF MIN_FREQ <= fs /\ fs <= MAX_FREQ
    THEN RecCall(t, "sampling_freq", fs)
    ELSE /\ pc[t].at = "idle"
         /\ rec_call' = [field |-> "sampling_freq", value |-> fs,
                         raised |-> TRUE, before |-> rec]
         /\ UNCHANGED <<rec, raceVars, rec_lock, cb_rate>>
         /\ UNCHANGED <<streamVars, queueVars, eqVars, lifeVars, lockRest>>

\* with self._lock:
RecAcquire(t) ==
    /\ pc[t].at = "rec_lock"
    /\ rec_lock = "free"
    /\ rec_lock' = t
    /\ pc' = [pc EXCEPT ![t].at = "rec_body"]
    /\ UNCHANGED <<audio_lock, cb_rate>>
    /\ UNCHANGED <<streamVars, queueVars, eqVars, sessionVars, lifeVars, lockRest>>

SamplingFreqBodyKeepsLock(t) ==
    /\ pc[t].at = "rec_body" /\ pc[t].op = "sampling_freq"
    /\ rec' = StoreField(rec, "sampling_freq", pc[t].arg, TRUE)
    /\ rec_call' = [field |-> "sampling_freq", value |-> pc[t].arg,
                    raised |-> FALSE, before |-> rec]
    /\ pc' = [pc EXCEPT ![t] = Idle]
    /\ UNCHANGED <<audio_lock, rec_lock, cb_rate>>
    /\ UNCHANGED <<streamVars, queueVars, eqVars, lifeVars, lockRest>>

\* self._sampling_freq = fs, and the with block is left
SamplingFreqBody(t) ==
    /\ pc[t].at = "rec_body" /\ pc[t].op = "sampling_freq"
    /\ rec' = StoreField(rec, "sampling_freq", pc[t].arg, TRUE)
    /\ rec_call' = [field |-> "sampling_freq", value |-> pc[t].arg,
                    raised |-> FALSE, before |-> rec]
    /\ rec_lock' = "free"
    /\ pc' = [pc EXCEPT ![t] = Idle]
    /\ UNCHANGED <<audio_lock, cb_rate>>
    /\ UNCHANGED <<streamVars, queueVars, eqVars, lifeVars, lockRest>>

\* self._audio_queue.put(item), and the with block is left
PutBody(t) ==
    /\ pc[t].at = "rec_body" /\ pc[t].op = "add_to_audio_queue"
    /\ Len(audio_queue) < MaxQueue
    /\ enqueued + pc[t].arg <= MaxSamples
    /\ add_to_audio_queue(TaggedFrame(enqueued, pc[t].arg))
    /\ rec_lock' = "free"
    /\ pc' = [pc EXCEPT ![t] = Idle]
    /\ UNCHANGED <<audio_lock, cb_rate>>
    /\ UNCHANGED <<sessionVars, lifeVars, lockRest>>

\* the concatenation is returned, and the with block is left
ConcatBody(t) ==
    /\ pc[t].at = "rec_body" /\ pc[t].op = "get_concatenated_audio"
    /\ get_concatenated_audio
    /\ rec_lock' = "free"
    /\ pc' = [pc EXCEPT ![t] = Idle]
    /\ UNCHANGED <<audio_lock, cb_rate>>
    /\ UNCHANGED <<sessionVars, lifeVars, lockRest>>

\* The backend invokes the callback of the active stream h: line 114 calls
\* the in_data_bytes getter.
CallbackCall(t, h) ==
    /\ pa_streams[h] = "active"
    /\ RecCall(t, "in_data_bytes", h)

\* The getter returns and leaves the with block; the callback runs on from
\* line 114 to the end it comes to.
CallbackBody(t) ==
    /\ pc[t].at = "rec_body" /\ pc[t].op = "in_data_bytes"
    /\ Callback(rec.frame_size.v)
    /\ pa_streams' = [pa_streams EXCEPT ![pc[t].arg] =
                         IF cb'.status = "returned" THEN "active" ELSE "aborted"]
    /\ cb_rate' = [used |-> streamer_rate, held |-> rec.sampling_freq]
    /\ rec_lock' = "free"
    /\ pc' = [pc EXCEPT ![t] = Idle]
    /\ UNCHANGED <<audio_lock, stream, life_call>>
    /\ UNCHANGED <<sessionVars, lockRest>>

\* full_path_name setter, inside its with block: self.full_path_name = path
\* is the setter itself, called again by the thread that holds the lock; it
\* comes to the with statement of a threading.Lock, which is not reentrant.
FullPathNameBody(t) ==
    /\ pc[t].at = "rec_body" /\ pc[t].op = "full_path_name"
    /\ pc' = [pc EXCEPT ![t].at = "rec_lock"]
    /\ UNCHANGED <<audio_lock, rec_lock, cb_rate>>
    /\ UNCHANGED <<streamVars, queueVars, eqVars, sessionVars, lifeVars, lockRest>>

LockChoices == { <<8000, 20, 5>> }

InitLocks == InitQueue

NextLocks ==
    \/ \E t \in Controllers, fs \in {MIN_FREQ - 1, 44100} : SamplingFreqCall(t, fs)
    \/ \E t \in Controllers, n \in {1} : RecCall(t, "add_to_audio_queue", n)
    \/ \E t \in Controllers : RecCall(t, "get_concatenated_audio", 0)
    \/ \E t \in Controllers : RecCall(t, "full_path_name", 0)
    \/ \E t \in Controllers : FullPathNameBody(t)
    \/ \E t \in BackendThreads, h \in 1..Len(pa_streams) : CallbackCall(t, h)
    \/ \E t \in Threads : RecAcquire(t)
    \/ \E t \in Controllers : SamplingFreqBody(t)
    \/ \E t \in Controllers : PutBody(t)
    \/ \E t \in Controllers : ConcatBody(t)
    \/ \E t \in BackendThreads : CallbackBody(t)
    \/ \E t \in Controllers, id \in {2}, c \in LockChoices :
          AddCall(t, id, c) /\ UNCHANGED otherThanRace
    \/ \E t \in Controllers : AddAcquire(t) /\ UNCHANGED otherThanRace
    \/ \E t \in Controllers : AddStore(t) /\ UNCHANGED otherThanRace
    \/ \E t \in Controllers : AddRelease(t) /\ UNCHANGED otherThanRace
    \/ start_stream("ok") /\ UNCHANGED ctl

SpecLocks == InitLocks /\ [][NextLocks]_vars

\* t is at the with statement of a queue operation and the lock it asks for
\* is held by u, which is inside an accessor of the session settings.
QueueWaitsForSettings(t, u) ==
    /\ pc[t].at = "rec_lock"
    /\ pc[t].op \in {"add_to_audio_queue", "get_concatenated_audio"}
    /\ rec_lock = u
    /\ pc[u].at = "rec_body"
    /\ pc[u].op \in {"sampling_freq", "in_data_bytes"}

\* C29: the accumulation queue has a mutex of its own, distinct from the mutex
\* of the session settings: a thread about to enqueue or concatenate is never
\* kept waiting by a thread that holds the settings mutex.
C29_QueueLockIsItsOwn ==
    \A t \in Threads, u \in Threads : ~QueueWaitsForSettings(t, u)

C31_AccessorsReleaseLock ==
    \A t \in Threads : ~(pc[t].at = "rec_lock" /\ rec_lock = t)

\* The number of samples held in the accumulation queue.
QueueTotal == Len(Concatenate(audio_queue))

\* C32: the queue started empty and the callback is its only producer; after
\* every callback invocation, returned or raised, the number of samples held
\* in the queue equals the cursor.
C32_QueueTotalIsCursor ==
    cb.status # "none" => QueueTotal = frame_start_index

(***************************************************************************)
(* SpecObjects: two AudioSettings objects.  AudioSettings.__init__ stores  *)
(* the dict DEFAULT_EQ_BANDS itself in self._eq_bands (audio_settings.py   *)
(* line 10), so objects share one dict until the eq_bands setter gives an  *)
(* object another.  objects.dicts are the dicts there are, objects.of[o]   *)
(* is the dict object o holds.  apply_equalizer reads the module-global    *)
(* audio_set of sound_processing.py (lines 51, 85), whose table is         *)
(* eq_bands; the streamer keeps the object it was built with in            *)
(* self.audio_set (audio_stream.py line 63) and its callback does not use  *)
(* it.                                                                     *)
(***************************************************************************)
TableOf(o) == objects.dicts[objects.of[o]]
Other(o) == CHOOSE x \in ObjNames : x # o

ObjCall(op, o) ==
    [NoObjCall EXCEPT !.op = op, !.on = o,
                      !.other_before = TableOf(Other(o)),
                      !.default_before = objects.dicts[1]]

\* The dict that o holds is changed in place.
Written(op, o, table) ==
    [objects EXCEPT !.dicts[objects.of[o]] = table, !.call = ObjCall(op, o)]

\* o is given a dict of its own: self._eq_bands = bands
Bound(op, o, table) ==
    [dicts |-> Append(objects.dicts, table),
     of |-> [objects.of EXCEPT ![o] = Len(objects.dicts) + 1],
     call |-> ObjCall(op, o)]

otherThanObjects ==
    <<callerVars, raceVars, sessionVars, lifeVars,
      audio, stop_call, ctl, streamer_rate, cb_rate, rec_lock, eq_iter, streamers>>

SharesModuleDict(o) == objects.of[o] = objects.of["module"]

ObjAdd(o, band_id, freq, gain, q10) ==
    /\ objects' = Written("add_eq_band", o, DictSet(TableOf(o), band_id, freq, gain, q10))
    /\ IF SharesModuleDict(o)
       THEN add_eq_band(band_id, freq, gain, q10)
       ELSE UNCHANGED <<streamVars, queueVars, eqVars>>
    /\ UNCHANGED otherThanObjects

ObjRemove(o, band_id) ==
    /\ objects' = Written("remove_eq_band", o,
                          IF HasBand(TableOf(o), band_id)
                          THEN DictDel(TableOf(o), band_id) ELSE TableOf(o))
    /\ IF SharesModuleDict(o)
       THEN remove_eq_band(band_id)
       ELSE UNCHANGED <<streamVars, queueVars, eqVars>>
    /\ UNCHANGED otherThanObjects

ObjClear(o) ==
    /\ objects' = Written("clear_eq_bands", o, <<>>)
    /\ IF SharesModuleDict(o)
       THEN clear_eq_bands
       ELSE UNCHANGED <<streamVars, queueVars, eqVars>>
    /\ UNCHANGED otherThanObjects

ObjSet(o, bands) ==
    /\ Len(objects.dicts) < MaxDicts
    /\ objects' = IF SetterRaises(bands)
                  THEN [objects EXCEPT !.call = ObjCall("eq_bands", o)]
                  ELSE Bound("eq_bands", o, bands.table)
    /\ IF o = "module"
       THEN set_eq_bands(bands)
       ELSE UNCHANGED <<streamVars, queueVars, eqVars>>
    /\ UNCHANGED otherThanObjects

\* The streamer's callback: the table it equalizes with, if it comes to
\* equalize, is the one apply_equalizer reads; held is the table of the
\* object the streamer was built with.
ObjCallback(frame_count) ==
    /\ Callback(frame_count)
    /\ objects' = [objects EXCEPT !.call =
                     [NoObjCall EXCEPT !.op = "callback", !.on = "streamer",
                                       !.used = IF cb'.status = "returned"
                                                THEN << TableOf("module") >> ELSE <<>>,
                                       !.held = << TableOf("streamer") >>]]
    /\ UNCHANGED otherThanObjects

ObjSetterArgs == { bands \in SetterArgs : Len(bands.table) = 1 }

InitObjects == InitQueue

NextObjects ==
    \/ \E o \in ObjNames, id \in BandIds, c \in SnapChoices :
          ObjAdd(o, id, c[1], c[2], c[3])
    \/ \E o \in ObjNames, id \in BandIds : ObjRemove(o, id)
    \/ \E o \in ObjNames : ObjClear(o)
    \/ \E o \in ObjNames, bands \in ObjSetterArgs : ObjSet(o, bands)
    \/ ObjCallback(rec.frame_size.v)

SpecObjects == InitObjects /\ [][NextObjects]_vars

InPlaceOps == {"add_eq_band", "remove_eq_band", "clear_eq_bands"}

\* C33: two separately constructed AudioSettings objects have independent
\* band tables: after add_eq_band, remove_eq_band or clear_eq_bands on one
\* object the table the other object returns, and the DEFAULT_EQ_BANDS
\* constant, are what they were before the call.
C33_ObjectsIndependent ==
    objects.call.op \in InPlaceOps =>
        /\ TableOf(Other(objects.call.on)) = objects.call.other_before
        /\ objects.dicts[1] = objects.call.default_before

\* C34: the band table a streamer's callback equalizes with is the table of
\* the AudioSettings object the streamer was built with, also after that
\* object's table was replaced through the eq_bands setter.
C34_CallbackUsesOwnSettings ==
    objects.call.op = "callback" => objects.call.used = objects.call.held

\* A step in which get_concatenated_audio returned a result (q_ret is what
\* the latest read returned).
ConcatReturned == q_ret'.op = "concat" /\ q_ret' # q_ret

\* C35: get_concatenated_audio does not remove frames: the queue is the same
\* before and after each call, and a call that follows another call with no
\* enqueue and no get_from_audio_queue in between returns an equal result.
C35_ConcatKeepsFrames ==
    [][ConcatReturned =>
          /\ audio_queue' = audio_queue
          /\ (q_ret.op = "concat" /\ q_ret.enq = enqueued /\ q_ret.deq = dequeued)
                => q_ret'.value = q_ret.value]_vars

\* A concatenation has returned two frames, after an earlier frame was taken
\* off by get_from_audio_queue, and both frames are still on the queue.
C35_Witness ==
    /\ q_ret.op = "concat"
    /\ q_ret.enq = enqueued /\ q_ret.deq = dequeued
    /\ dequeued > 0
    /\ Len(audio_queue) = 2
    /\ Len(q_ret.value) > 2

(***************************************************************************)
(* SpecBuild: AudioStreamer() built with no arguments, more than once.     *)
(* The default value of rec_set is the one RecordingSettings object made   *)
(* when the def statement of __init__ ran (audio_stream.py line 45): every *)
(* streamer built without a rec_set holds that object, whose queue is      *)
(* audio_queue.  __init__ reads rec_set.channels (line 74), an attribute   *)
(* RecordingSettings.__init__ does not make; a caller may assign it, as    *)
(* main.py line 20 does on its own object.  streamers holds whether the    *)
(* default object has the attribute and, for the latest construction, its  *)
(* outcome, the new streamer's cursor and the queue of its rec_set.        *)
(***************************************************************************)
otherThanBuild ==
    <<callerVars, raceVars, sessionVars, lifeVars,
      audio, stop_call, ctl, cb_rate, rec_lock, eq_iter, objects>>

\* rec_set.channels = n on the RecordingSettings object of the default argument
SetDefaultChannels ==
    /\ ~streamers.has_channels
    /\ streamers' = [streamers EXCEPT !.has_channels = TRUE]
    /\ UNCHANGED <<streamVars, queueVars, eqVars, streamer_rate, otherThanBuild>>

\* AudioStreamer(): lines 62-73 run, then line 74 raises AttributeError unless
\* the default object has the attribute channels.
Construct ==
    /\ streamers.n < MaxBuilds
    /\ IF streamers.has_channels
       THEN /\ streamers' = [streamers EXCEPT !.n = @ + 1, !.status = "built",
                                              !.cursor = 0, !.queue = audio_queue]
            /\ frame_start_index' = 0
            /\ streamer_rate' = rec.sampling_freq
       ELSE /\ streamers' = [streamers EXCEPT !.n = @ + 1, !.status = "AttributeError",
                                              !.cursor = 0, !.queue = <<>>]
            /\ UNCHANGED <<frame_start_index, streamer_rate>>
    /\ UNCHANGED <<in_data, channels, cb, queueVars, eqVars, otherThanBuild>>

InitBuild == Init

NextBuild ==
    \/ SetDefaultChannels
    \/ Construct
    \/ /\ streamers.status = "built"
       /\ Callback(rec.frame_size.v)
       /\ UNCHANGED <<streamer_rate, streamers, otherThanBuild>>
    \/ /\ streamers.status = "built"
       /\ AddToAudioQueue
       /\ UNCHANGED <<streamer_rate, streamers, otherThanBuild>>

SpecBuild == InitBuild /\ [][NextBuild]_vars

\* C36: a streamer built with no settings objects starts with an empty
\* accumulation queue and a cursor of 0, whatever streamers were built and
\* used before it.
C36_NewStreamerStartsEmpty ==
    streamers.n > 0 =>
        /\ streamers.status = "built"
        /\ streamers.cursor = 0
        /\ streamers.queue = <<>>

====
